---- MODULE Spec2Model ----
(***************************************************************************)
(* Model of plugins/inputs/arangodb/arangodb.go: the ArangoDB input.       *)
(* Gather parses the configured endpoint list, launches one goroutine per  *)
(* parsed URL, and waits for all of them; each goroutine runs gatherURL    *)
(* (login POST, stats GET, field extraction, three AddFields) and hands    *)
(* its result to acc.AddError.                                             *)
(*                                                                         *)
(* Strings are sequences of tokens, so that concatenation (u.String() +    *)
(* loginPostfix, "Bearer " + jwt) is sequence concatenation and            *)
(* url.Parse / URL.String are computed, not assumed to be the identity.    *)
(*                                                                         *)
(* The accumulator is an external collaborator.  sink[t] is the sequence   *)
(* of calls it has received from goroutine t of the current cycle, in the  *)
(* order that goroutine made them; the relative order of calls made by     *)
(* different goroutines is not recorded.                                   *)
(***************************************************************************)
EXTENDS Integers, Sequences, FiniteSets, TLC

VARIABLES
    Urls,       \* p.Urls: the configured endpoint strings
    Username,   \* p.Username
    Password,   \* p.Password
    client,     \* p.client
    gpc,        \* position of the Gather call
    idx,        \* loop index of the Gather loop in progress
    allURLs,    \* Gather's local allURLs
    wg,         \* counter of Gather's sync.WaitGroup
    ret,        \* value returned by the last Gather call
    task,       \* the goroutines launched in this cycle, in launch order
    sink,       \* calls received by the accumulator, per goroutine
    logged,     \* strings passed to log.Printf in this cycle
    fatal,      \* a goroutine has unwound with an unrecovered panic
    crashed     \* the runtime has terminated the process

vars == <<Urls, Username, Password, client, gpc, idx, allURLs, wg, ret, task, sink,
          logged, fatal, crashed>>

----------------------------------------------------------------------------
(* Bounds *)

MaxUrls == 2

\* the longest bucket sequence a server sends in SpecNorm
MaxBuckets == 7

----------------------------------------------------------------------------
(* Program constants *)

loginPostfix == "/_open/auth"
statsPostfix == "/_admin/statistics"
NumBuckets == 6
DefaultTimeout == 3

----------------------------------------------------------------------------
(* Strings and URLs *)

\* Tokens standing for raw control characters inside a configured string.
CtlTokens == {"\\x7f"}

ToLower(s) == IF s = "HTTP" THEN "http" ELSE s

\* The configured endpoint strings the model draws from: a plain URL, a URL
\* whose scheme is written in upper case, and a string with a control
\* character in its host.
ConfigStrings ==
    { <<"http", "://", "a:8529">>,
      <<"HTTP", "://", "b:8529">>,
      <<"http", "://", "\\x7f">> }

RECURSIVE SeqsUpTo(_, _)
SeqsUpTo(S, n) ==
    IF n = 0 THEN { <<>> }
    ELSE LET shorter == SeqsUpTo(S, n - 1)
         IN  shorter \cup { Append(q, x) : q \in { p \in shorter : Len(p) = n - 1 }, x \in S }

UrlLists == SeqsUpTo(ConfigStrings, MaxUrls)

\* url.Parse: rejects a string holding a control character; otherwise splits
\* off the scheme and lower-cases it.
ParseErr(s) == \E i \in 1..Len(s) : s[i] \in CtlTokens

Parse(s) == [Scheme |-> ToLower(s[1]), Host |-> s[3]]

\* URL.String
String(u) == <<u.Scheme, "://", u.Host>>

----------------------------------------------------------------------------
(* Errors *)

\* An error value: its kind and the endpoint its text names (<<>> if none).
Nil == [kind |-> "nil", url |-> <<>>]

LoginConnErr(u) == [kind |-> "login_connect", url |-> String(u)]
StatsConnErr(u) == [kind |-> "stats_connect", url |-> String(u)]
TokenReadErr    == [kind |-> "token_read", url |-> <<>>]
StatsReadErr    == [kind |-> "stats_read", url |-> <<>>]
DecodeErr       == [kind |-> "json_decode", url |-> <<>>]

----------------------------------------------------------------------------
(* HTTP exchanges *)

\* The request bodies and headers the plugin builds.
LoginRequest == [username |-> Username, password |-> Password]

LoginReq(u) == [method |-> "POST", url |-> String(u) \o <<loginPostfix>>,
                body |-> LoginRequest, auth |-> <<>>]

\* StatsReq with the token percent-encoded on its way into the header
Escaped(jwt) == IF jwt = "a.b+c/d==" THEN "a.b%2Bc%2Fd%3D%3D" ELSE jwt

StatsReq_Escaped(u, jwt) ==
    [method |-> "GET", url |-> String(u) \o <<statsPostfix>>,
     body |-> <<>>, auth |-> <<"Bearer ", Escaped(jwt)>>]

StatsReq(u, jwt) == [method |-> "GET", url |-> String(u) \o <<statsPostfix>>,
                     body |-> <<>>, auth |-> <<"Bearer ", jwt>>]

\* What a server answers to a login it accepts: the server at a:8529 sends
\* a token holding characters that an encoder would escape, the server at
\* b:8529 sends a JSON object without a jwt field.
Granted(host) ==
    IF host = "a:8529"
    THEN [readable |-> TRUE, json |-> TRUE, has |-> TRUE,  jwt |-> "a.b+c/d=="]
    ELSE [readable |-> TRUE, json |-> TRUE, has |-> FALSE, jwt |-> ""]

\* A response body as it arrives.  readable = FALSE: reading the body
\* fails (for the stats exchange, the closed body of a failed redirect
\* check is the read failure the model draws).  json = FALSE: the bytes are not JSON of the expected shape.
\* has = FALSE: the JSON object lacks the field (jwt, resp. counts).
LoginBodies(u) ==
    { [readable |-> FALSE, json |-> FALSE, has |-> FALSE, jwt |-> ""],
      [readable |-> TRUE,  json |-> FALSE, has |-> FALSE, jwt |-> ""],
      Granted(u.Host) }

\* Bucket counts <<1, 2, ..., n>>, as in the documented example payload.
CountsOf(n) == [i \in 1..n |-> i]

\* one bucket short, and exactly enough
BucketLens == {NumBuckets - 1, NumBuckets}

\* count and sum are client.requestTime.requestTime and client.requestTime.sum
\* of the body (10 and 7.2 in the documented example; sum in tenths).
StatsBodies ==
    { [readable |-> TRUE,  json |-> FALSE, has |-> FALSE, counts |-> <<>>,
       count |-> 0, sum |-> 0],
      [readable |-> TRUE,  json |-> TRUE,  has |-> FALSE, counts |-> <<>>,
       count |-> 10, sum |-> 72] }
    \cup { [readable |-> TRUE, json |-> TRUE, has |-> TRUE, counts |-> CountsOf(n),
             count |-> 10, sum |-> 72] : n \in BucketLens }

\* The well-formed statistics bodies of SpecNorm: every bucket sequence of
\* NumBuckets to MaxBuckets elements over BucketVals, with two request
\* counts.
BucketVals == {0, 1}

RECURSIVE SeqsOfLen(_, _)
SeqsOfLen(S, n) ==
    IF n = 0 THEN { <<>> }
    ELSE { Append(q, x) : q \in SeqsOfLen(S, n - 1), x \in S }

NormBodies ==
    { [readable |-> TRUE, json |-> TRUE, has |-> TRUE, counts |-> c,
       count |-> k, sum |-> 72] :
         c \in UNION { SeqsOfLen(BucketVals, n) : n \in NumBuckets..MaxBuckets },
         k \in {0, 10} }

\* Outcomes of client.Do.  "ok": a response and no error.  "transport": no
\* response and an error (refused, timeout, DNS).  "redirect": the redirect
\* check failed, so Do returns an error together with the last response,
\* whose body is already closed.
NoBody == [readable |-> FALSE, json |-> FALSE, has |-> FALSE]

\* For the login POST a failed redirect check takes the path of a transport
\* error (line 117), so only the transport error is drawn there.
\* The status line a login body comes with in Spec: 200 with a token, 401
\* with a JSON body that has no jwt, 500 with a body that is not JSON.
StatusOf(b) ==
    IF ~b.readable THEN 200
    ELSE IF ~b.json THEN 500
    ELSE IF b.has THEN 200 ELSE 401

LoginResults(u) ==
    { [do |-> "ok", status |-> StatusOf(b), body |-> b] : b \in LoginBodies(u) }
    \cup { [do |-> "transport", status |-> 0, body |-> NoBody] }

\* The login results of SpecStatus: every body under every status.
StatusCodes == {200, 401, 500}

AnyLoginBodies ==
    { [readable |-> FALSE, json |-> FALSE, has |-> FALSE, jwt |-> ""],
      [readable |-> TRUE,  json |-> FALSE, has |-> FALSE, jwt |-> ""],
      [readable |-> TRUE,  json |-> TRUE,  has |-> FALSE, jwt |-> ""],
      [readable |-> TRUE,  json |-> TRUE,  has |-> TRUE,  jwt |-> "a.b+c/d=="] }

AnyLoginResults ==
    { [do |-> "ok", status |-> c, body |-> b] : c \in StatusCodes, b \in AnyLoginBodies }
    \cup { [do |-> "transport", status |-> 0, body |-> NoBody] }

StatsResults ==
    { [do |-> "ok", status |-> 200, body |-> b] : b \in StatsBodies }
    \cup { [do |-> "transport", status |-> 0, body |-> NoBody],
           [do |-> "redirect", status |-> 302, body |-> NoBody] }

NormResults == { [do |-> "ok", status |-> 200, body |-> b] : b \in NormBodies }

NoResult == [do |-> "none", status |-> 0, body |-> NoBody]

\* err returned by client.Do
DoErr(r) == r.do # "ok"

\* the *http.Response returned by client.Do is nil
RespNil(r) == r.do = "transport"

\* ioutil.ReadAll(resp.Body) fails: the body is closed or the read breaks
ReadErr(r) == r.do = "redirect" \/ ~r.body.readable

\* UnmarshalErr with the result of json.Unmarshal not looked at
UnmarshalErr_Ignored(r) == FALSE

\* json.Unmarshal(body, &v) fails
UnmarshalErr(r) == ~r.body.json

\* json.Unmarshal into LoginResponse: a missing jwt leaves the zero value
DecodeLogin(r) == [Jwt |-> IF r.body.has THEN r.body.jwt ELSE ""]

\* json.Unmarshal into ArangoStats.  The scalar sections carry the values
\* of the documented example; a missing counts field leaves the nil slice.
DecodeStats(r) ==
    [System |-> [MajorPageFaults |-> 5, MinorPageFaults |-> 11, NumberOfThreads |-> 8,
                 ResidentSize |-> 4096, SystemTime |-> 2, UserTime |-> 9,
                 VirtualSize |-> 65536],
     Server |-> [PhysicalMemory |-> 1024, Uptime |-> 35],
     Client |-> [RequestTime |->
                  [Count |-> r.body.count,
                   Counts |-> IF r.body.has THEN r.body.counts ELSE <<>>,
                   Sum |-> r.body.sum]]]

NoStats == [System |-> <<>>, Server |-> <<>>, Client |-> <<>>]

----------------------------------------------------------------------------
(* Field extraction, lines 159-184 *)

Tags(u) == [url |-> String(u)]

SystemFields(stats) ==
    [majorPageFaults |-> stats.System.MajorPageFaults,
     minorPageFaults |-> stats.System.MinorPageFaults,
     numberOfThreads |-> stats.System.NumberOfThreads,
     residentSize    |-> stats.System.ResidentSize,
     systemTime      |-> stats.System.SystemTime,
     userTime        |-> stats.System.UserTime,
     virtualSize     |-> stats.System.VirtualSize]

ServerFields(stats) ==
    [physicalMemory |-> stats.Server.PhysicalMemory,
     uptime         |-> stats.Server.Uptime]

\* Counts[i] for a Go index i (0-based); evaluated only when in range.
At(counts, i) == counts[i + 1]

\* ClientFields with the values of req_0.1 and req_0.2 exchanged
ClientFields_Swapped(stats) ==
    LET rt == stats.Client.RequestTime
    IN  [k \in {"req_0.01", "req_0.05", "req_0.1", "req_0.2", "req_0.5", "req_1",
                "count", "sum"} |->
            CASE k = "req_0.01" -> rt.Counts[1]
              [] k = "req_0.05" -> rt.Counts[2]
              [] k = "req_0.1"  -> rt.Counts[4]
              [] k = "req_0.2"  -> rt.Counts[3]
              [] k = "req_0.5"  -> rt.Counts[5]
              [] k = "req_1"    -> rt.Counts[6]
              [] k = "count"    -> rt.Count
              [] k = "sum"      -> rt.Sum]

\* The indexing Counts[0] .. Counts[5] runs out of range and panics.
IndexPanics(counts) == Len(counts) < NumBuckets

ClientFields(stats) ==
    LET rt == stats.Client.RequestTime
    IN  [k \in {"req_0.01", "req_0.05", "req_0.1", "req_0.2", "req_0.5", "req_1",
                "count", "sum"} |->
            CASE k = "req_0.01" -> At(rt.Counts, 0)
              [] k = "req_0.05" -> At(rt.Counts, 1)
              [] k = "req_0.1"  -> At(rt.Counts, 2)
              [] k = "req_0.2"  -> At(rt.Counts, 3)
              [] k = "req_0.5"  -> At(rt.Counts, 4)
              [] k = "req_1"    -> At(rt.Counts, 5)
              [] k = "count"    -> rt.Count
              [] k = "sum"      -> rt.Sum]

----------------------------------------------------------------------------
(* State *)

\* createHttpClient: a new client for this invocation, never an error.
createHttpClient ==
    [client |-> [Timeout |-> DefaultTimeout, DisableKeepAlives |-> TRUE],
     err    |-> Nil]

\* p.client before the first Gather
NoClient == [Timeout |-> 0, DisableKeepAlives |-> FALSE]

\* A goroutine of Gather's launch loop, at the top of gatherURL.
\*   reqs: the requests it has handed to client.Do, in order
\*   open: the response bodies it holds open
NewTask(u) ==
    [pc |-> "login", serviceURL |-> u, tokenRequest |-> NoResult, jwt |-> "",
     statsResponse |-> NoResult, stats |-> NoStats, err |-> Nil,
     reqs |-> <<>>, open |-> {}]

Init ==
    /\ Urls \in UrlLists
    /\ Username = "root"
    /\ Password = "root"
    /\ client = NoClient
    /\ gpc = "idle"
    /\ idx = 0
    /\ allURLs = <<>>
    /\ wg = 0
    /\ ret = Nil
    /\ task = <<>>
    /\ sink = <<>>
    /\ logged = <<>>
    /\ fatal = FALSE
    /\ crashed = FALSE

Tasks == 1..Len(task)

----------------------------------------------------------------------------
(* Gather, lines 194-226 *)

\* Lines 195-204: the host calls Gather; a new client is stored in p.client.
\* The goroutines, accumulator calls and log lines of the previous call are
\* history and are dropped from the state.  The host calls again an interval
\* after the previous call returned; a process that is about to die of a
\* panic is gone by then.
GatherStart ==
    /\ ~crashed
    /\ ~fatal
    /\ gpc \in {"idle", "returned"}
    /\ LET c == createHttpClient
       IN  IF c.err # Nil
           THEN /\ ret' = c.err
                /\ gpc' = "returned"
                /\ UNCHANGED client
           ELSE /\ client' = c.client
                /\ gpc' = "parse"
                /\ ret' = Nil
    /\ idx' = 1
    /\ allURLs' = <<>>
    /\ wg' = 0
    /\ task' = <<>>
    /\ sink' = <<>>
    /\ logged' = <<>>
    /\ UNCHANGED <<Urls, Username, Password, fatal, crashed>>

\* GatherParse that keeps the URL although url.Parse reported an error
GatherParse_NoSkip ==
    /\ ~crashed
    /\ gpc = "parse"
    /\ idx <= Len(Urls)
    /\ IF ParseErr(Urls[idx])
       THEN logged' = Append(logged, Urls[idx])
       ELSE UNCHANGED logged
    /\ allURLs' = Append(allURLs, Parse(Urls[idx]))
    /\ idx' = idx + 1
    /\ UNCHANGED <<Urls, Username, Password, client, gpc, wg, ret, task, sink, fatal, crashed>>

\* GatherParse that leaves the loop at the first url.Parse error (break
\* for continue)
GatherParse_Break ==
    /\ ~crashed
    /\ gpc = "parse"
    /\ idx <= Len(Urls)
    /\ IF ParseErr(Urls[idx])
       THEN /\ logged' = Append(logged, Urls[idx])
            /\ idx' = Len(Urls) + 1
            /\ UNCHANGED allURLs
       ELSE /\ allURLs' = Append(allURLs, Parse(Urls[idx]))
            /\ idx' = idx + 1
            /\ UNCHANGED logged
    /\ UNCHANGED <<Urls, Username, Password, client, gpc, wg, ret, task, sink, fatal, crashed>>

\* Lines 205-213: one iteration of the parse loop.
GatherParse ==
    /\ ~crashed
    /\ gpc = "parse"
    /\ idx <= Len(Urls)
    /\ IF ParseErr(Urls[idx])
       THEN /\ logged' = Append(logged, Urls[idx])
            /\ UNCHANGED allURLs
       ELSE /\ allURLs' = Append(allURLs, Parse(Urls[idx]))
            /\ UNCHANGED logged
    /\ idx' = idx + 1
    /\ UNCHANGED <<Urls, Username, Password, client, gpc, wg, ret, task, sink, fatal, crashed>>

\* Line 213 -> 216: the parse loop ends, the launch loop begins.
GatherParsed ==
    /\ ~crashed
    /\ gpc = "parse"
    /\ idx > Len(Urls)
    /\ gpc' = "launch"
    /\ idx' = 1
    /\ UNCHANGED <<Urls, Username, Password, client, allURLs, wg, ret, task, sink, logged,
                   fatal, crashed>>

\* Lines 216-222: one iteration of the launch loop: wg.Add(1); go func(URL).
GatherLaunch ==
    /\ ~crashed
    /\ gpc = "launch"
    /\ idx <= Len(allURLs)
    /\ wg' = wg + 1
    /\ task' = Append(task, NewTask(allURLs[idx]))
    /\ sink' = Append(sink, <<>>)
    /\ idx' = idx + 1
    /\ UNCHANGED <<Urls, Username, Password, client, gpc, allURLs, ret, logged, fatal, crashed>>

\* Line 222 -> 224: the launch loop ends, Gather blocks in wg.Wait.
GatherLaunched ==
    /\ ~crashed
    /\ gpc = "launch"
    /\ idx > Len(allURLs)
    /\ gpc' = "wait"
    /\ UNCHANGED <<Urls, Username, Password, client, idx, allURLs, wg, ret, task, sink, logged,
                   fatal, crashed>>

\* WaitOver of a Gather that does not wait for the last goroutine
WaitOver_Early(n) == n <= 1

\* wg.Wait returns
WaitOver(n) == n = 0

\* Lines 224-225: wg.Wait returns and Gather returns nil.
GatherReturn ==
    /\ ~crashed
    /\ gpc = "wait"
    /\ WaitOver(wg)
    /\ gpc' = "returned"
    /\ ret' = Nil
    /\ UNCHANGED <<Urls, Username, Password, client, idx, allURLs, wg, task, sink, logged,
                   fatal, crashed>>

----------------------------------------------------------------------------
(* gatherURL, lines 102-192, run by goroutine t *)

\* The calls the accumulator receives.
AddFields(name, fields, tags) ==
    [op |-> "AddFields", name |-> name, fields |-> fields, tags |-> tags, err |-> Nil]

AddError(e) ==
    [op |-> "AddError", name |-> "", fields |-> <<>>, tags |-> <<>>, err |-> e]

\* LoginOutcome with the transport error of the login POST dropped: the
\* goroutine stops but returns nil.
LoginOutcome_Swallow(u, r) ==
    IF DoErr(r)             THEN [pc |-> "report", err |-> Nil, jwt |-> ""]
    ELSE IF ReadErr(r)      THEN [pc |-> "report", err |-> TokenReadErr, jwt |-> ""]
    ELSE IF UnmarshalErr(r) THEN [pc |-> "report", err |-> DecodeErr, jwt |-> ""]
    ELSE [pc |-> "stats", err |-> Nil, jwt |-> DecodeLogin(r).Jwt]

\* LoginOutcome going on to the stats request although the login body did
\* not decode.
LoginOutcome_Proceed(u, r) ==
    IF DoErr(r)             THEN [pc |-> "report", err |-> LoginConnErr(u), jwt |-> ""]
    ELSE IF ReadErr(r)      THEN [pc |-> "report", err |-> TokenReadErr, jwt |-> ""]
    ELSE IF UnmarshalErr(r) THEN [pc |-> "stats", err |-> Nil, jwt |-> ""]
    ELSE [pc |-> "stats", err |-> Nil, jwt |-> DecodeLogin(r).Jwt]

\* LoginOutcome that treats a status of 400 or more as a failed login
LoginOutcome_CheckStatus(u, r) ==
    IF DoErr(r)             THEN [pc |-> "report", err |-> LoginConnErr(u), jwt |-> ""]
    ELSE IF r.status >= 400 THEN [pc |-> "report", err |-> LoginConnErr(u), jwt |-> ""]
    ELSE IF ReadErr(r)      THEN [pc |-> "report", err |-> TokenReadErr, jwt |-> ""]
    ELSE IF UnmarshalErr(r) THEN [pc |-> "report", err |-> DecodeErr, jwt |-> ""]
    ELSE [pc |-> "stats", err |-> Nil, jwt |-> DecodeLogin(r).Jwt]

\* Lines 116-132: what gatherURL does with the result r of the login POST.
\* It returns on a Do error, a read error or a decode error; otherwise it
\* goes on to the stats request with the decoded token and err = nil.
LoginOutcome(u, r) ==
    IF DoErr(r)             THEN [pc |-> "report", err |-> LoginConnErr(u), jwt |-> ""]
    ELSE IF ReadErr(r)      THEN [pc |-> "report", err |-> TokenReadErr, jwt |-> ""]
    ELSE IF UnmarshalErr(r) THEN [pc |-> "report", err |-> DecodeErr, jwt |-> ""]
    ELSE [pc |-> "stats", err |-> Nil, jwt |-> DecodeLogin(r).Jwt]

\* Lines 140-184: what gatherURL does with the result r of the stats GET.
\* The error of client.Do is discarded on line 140, so line 142 tests err
\* as the login decode left it.  With a nil response, line 145 dereferences
\* it and panics; with fewer than six buckets, lines 177-182 index out of
\* range and panic.
StatsOutcome(u, r, err) ==
    IF err # Nil            THEN [pc |-> "report", err |-> StatsConnErr(u)]
    ELSE IF RespNil(r)      THEN [pc |-> "panicking", err |-> err]
    ELSE IF ReadErr(r)      THEN [pc |-> "report", err |-> StatsReadErr]
    ELSE IF UnmarshalErr(r) THEN [pc |-> "report", err |-> DecodeErr]
    ELSE IF IndexPanics(DecodeStats(r).Client.RequestTime.Counts)
                            THEN [pc |-> "panicking", err |-> Nil]
    ELSE [pc |-> "add_system", err |-> Nil]

\* Lines 105-116: build the login request and hand it to client.Do.
\* json.Marshal of a struct of two strings and http.NewRequest on the string
\* of a parsed URL do not fail, so the returns on lines 108 and 113 are not
\* taken.
LoginSend(t) ==
    /\ ~crashed
    /\ task[t].pc = "login"
    /\ task' = [task EXCEPT ![t].pc = "login_wait",
                            ![t].reqs = Append(@, LoginReq(task[t].serviceURL))]
    /\ UNCHANGED <<Urls, Username, Password, client, gpc, idx, allURLs, wg, ret, sink, logged,
                   fatal, crashed>>

\* Lines 116-132: client.Do returns; read and decode the login response.
LoginRecvFrom(t, results) ==
    /\ ~crashed
    /\ task[t].pc = "login_wait"
    /\ \E r \in results :
         LET o == LoginOutcome(task[t].serviceURL, r)
         IN  task' = [task EXCEPT ![t].pc = o.pc,
                                  ![t].err = o.err,
                                  ![t].jwt = o.jwt,
                                  ![t].tokenRequest = r,
                                  ![t].open = IF ~DoErr(r) /\ o.pc = "stats"
                                              THEN {"login"} ELSE {}]
    /\ UNCHANGED <<Urls, Username, Password, client, gpc, idx, allURLs, wg, ret, sink, logged,
                   fatal, crashed>>

LoginRecv(t) == LoginRecvFrom(t, LoginResults(task[t].serviceURL))

\* LoginRecv against a server that may send any body under any status
LoginRecvAny(t) == LoginRecvFrom(t, AnyLoginResults)

\* Lines 137-140: build the stats request with the bearer token, hand it to
\* client.Do.
StatsSend(t) ==
    /\ ~crashed
    /\ task[t].pc = "stats"
    /\ task' = [task EXCEPT ![t].pc = "stats_wait",
                            ![t].reqs = Append(@, StatsReq(task[t].serviceURL, task[t].jwt))]
    /\ UNCHANGED <<Urls, Username, Password, client, gpc, idx, allURLs, wg, ret, sink, logged,
                   fatal, crashed>>

\* Lines 140-184: client.Do returns; read, decode and index the statistics.
\* On a return or a panic the deferred Close calls run.
StatsRecvFrom(t, results) ==
    /\ ~crashed
    /\ task[t].pc = "stats_wait"
    /\ \E r \in results :
         LET o == StatsOutcome(task[t].serviceURL, r, task[t].err)
         IN  task' = [task EXCEPT ![t].pc = o.pc,
                                  ![t].err = o.err,
                                  ![t].statsResponse = r,
                                  ![t].stats = IF o.pc = "add_system"
                                               THEN DecodeStats(r) ELSE NoStats,
                                  ![t].open = IF o.pc = "add_system"
                                              THEN {"login", "stats"} ELSE {}]
    /\ UNCHANGED <<Urls, Username, Password, client, gpc, idx, allURLs, wg, ret, sink, logged,
                   fatal, crashed>>

StatsRecv(t) == StatsRecvFrom(t, StatsResults)

\* StatsRecv against a server that answers with a well-formed body
StatsRecvNorm(t) == StatsRecvFrom(t, NormResults)

\* Line 187
AddSystem(t) ==
    /\ ~crashed
    /\ task[t].pc = "add_system"
    /\ sink' = [sink EXCEPT ![t] = Append(@,
                  AddFields("arangodb_system", SystemFields(task[t].stats),
                            Tags(task[t].serviceURL)))]
    /\ task' = [task EXCEPT ![t].pc = "add_server"]
    /\ UNCHANGED <<Urls, Username, Password, client, gpc, idx, allURLs, wg, ret, logged,
                   fatal, crashed>>

\* Line 188
AddServer(t) ==
    /\ ~crashed
    /\ task[t].pc = "add_server"
    /\ sink' = [sink EXCEPT ![t] = Append(@,
                  AddFields("arangodb_server", ServerFields(task[t].stats),
                            Tags(task[t].serviceURL)))]
    /\ task' = [task EXCEPT ![t].pc = "add_client"]
    /\ UNCHANGED <<Urls, Username, Password, client, gpc, idx, allURLs, wg, ret, logged,
                   fatal, crashed>>

\* AddClient of a gatherURL that validates the client section only after the
\* first two records are out, and returns an error instead of the third
AddClient_ErrAfter(t) ==
    /\ ~crashed
    /\ task[t].pc = "add_client"
    /\ task' = [task EXCEPT ![t].pc = "report", ![t].err = DecodeErr, ![t].open = {}]
    /\ UNCHANGED <<Urls, Username, Password, client, gpc, idx, allURLs, wg, ret, sink,
                   logged, fatal, crashed>>

\* Lines 189-191: the last record, then return nil; the deferred Close calls
\* run.
AddClient(t) ==
    /\ ~crashed
    /\ task[t].pc = "add_client"
    /\ sink' = [sink EXCEPT ![t] = Append(@,
                  AddFields("arangodb_client", ClientFields(task[t].stats),
                            Tags(task[t].serviceURL)))]
    /\ task' = [task EXCEPT ![t].pc = "report", ![t].err = Nil, ![t].open = {}]
    /\ UNCHANGED <<Urls, Username, Password, client, gpc, idx, allURLs, wg, ret, logged,
                   fatal, crashed>>

\* Report that calls AddError only for a non-nil error
Report_SkipNil(t) ==
    /\ ~crashed
    /\ task[t].pc = "report"
    /\ sink' = IF task[t].err = Nil THEN sink
               ELSE [sink EXCEPT ![t] = Append(@, AddError(task[t].err))]
    /\ task' = [task EXCEPT ![t].pc = "wgdone"]
    /\ UNCHANGED <<Urls, Username, Password, client, gpc, idx, allURLs, wg, ret, logged,
                   fatal, crashed>>

\* Line 220: acc.AddError(<result of gatherURL>)
Report(t) ==
    /\ ~crashed
    /\ task[t].pc = "report"
    /\ sink' = [sink EXCEPT ![t] = Append(@, AddError(task[t].err))]
    /\ task' = [task EXCEPT ![t].pc = "wgdone"]
    /\ UNCHANGED <<Urls, Username, Password, client, gpc, idx, allURLs, wg, ret, logged,
                   fatal, crashed>>

\* Done of a goroutine that also drops the shared client when it is through
Done_ClearsClient(t) ==
    /\ ~crashed
    /\ task[t].pc = "wgdone"
    /\ wg' = wg - 1
    /\ task' = [task EXCEPT ![t].pc = "done"]
    /\ client' = NoClient
    /\ UNCHANGED <<Urls, Username, Password, gpc, idx, allURLs, ret, sink, logged,
                   fatal, crashed>>

\* Line 219: the deferred wg.Done of a goroutine that returned normally.
Done(t) ==
    /\ ~crashed
    /\ task[t].pc = "wgdone"
    /\ wg' = wg - 1
    /\ task' = [task EXCEPT ![t].pc = "done"]
    /\ UNCHANGED <<Urls, Username, Password, client, gpc, idx, allURLs, ret, sink, logged,
                   fatal, crashed>>

\* Line 219: the deferred wg.Done of a panicking goroutine.  Line 220's
\* AddError is skipped; nothing recovers the panic, so the goroutine's
\* stack is exhausted and the runtime is about to end the process.
PanicDone(t) ==
    /\ ~crashed
    /\ task[t].pc = "panicking"
    /\ wg' = wg - 1
    /\ task' = [task EXCEPT ![t].pc = "dead"]
    /\ fatal' = TRUE
    /\ UNCHANGED <<Urls, Username, Password, client, gpc, idx, allURLs, ret, sink, logged,
                   crashed>>

\* The Go runtime ends the process after an unrecovered panic.
Crash ==
    /\ fatal
    /\ ~crashed
    /\ crashed' = TRUE
    /\ UNCHANGED <<Urls, Username, Password, client, gpc, idx, allURLs, wg, ret, task, sink,
                   logged, fatal>>

----------------------------------------------------------------------------

Next ==
    \/ GatherStart
    \/ GatherParse
    \/ GatherParsed
    \/ GatherLaunch
    \/ GatherLaunched
    \/ GatherReturn
    \/ \E t \in Tasks : LoginSend(t)
    \/ \E t \in Tasks : LoginRecv(t)
    \/ \E t \in Tasks : StatsSend(t)
    \/ \E t \in Tasks : StatsRecv(t)
    \/ \E t \in Tasks : AddSystem(t)
    \/ \E t \in Tasks : AddServer(t)
    \/ \E t \in Tasks : AddClient(t)
    \/ \E t \in Tasks : Report(t)
    \/ \E t \in Tasks : Done(t)
    \/ \E t \in Tasks : PanicDone(t)
    \/ Crash

Spec == Init /\ [][Next]_vars

\* SpecNorm: one endpoint whose server answers the stats GET with a
\* well-formed body of at least NumBuckets buckets, drawn from NormBodies.
InitNorm ==
    /\ Init
    /\ Len(Urls) = 1
    /\ ~ParseErr(Urls[1])

NextNorm ==
    \/ GatherStart
    \/ GatherParse
    \/ GatherParsed
    \/ GatherLaunch
    \/ GatherLaunched
    \/ GatherReturn
    \/ \E t \in Tasks : LoginSend(t)
    \/ \E t \in Tasks : LoginRecv(t)
    \/ \E t \in Tasks : StatsSend(t)
    \/ \E t \in Tasks : StatsRecvNorm(t)
    \/ \E t \in Tasks : AddSystem(t)
    \/ \E t \in Tasks : AddServer(t)
    \/ \E t \in Tasks : AddClient(t)
    \/ \E t \in Tasks : Report(t)
    \/ \E t \in Tasks : Done(t)

SpecNorm == InitNorm /\ [][NextNorm]_vars

\* SpecStatus: one endpoint whose server answers the login POST with any
\* body under any status code.
NextStatus ==
    \/ GatherStart
    \/ GatherParse
    \/ GatherParsed
    \/ GatherLaunch
    \/ GatherLaunched
    \/ GatherReturn
    \/ \E t \in Tasks : LoginSend(t)
    \/ \E t \in Tasks : LoginRecvAny(t)
    \/ \E t \in Tasks : StatsSend(t)
    \/ \E t \in Tasks : StatsRecv(t)
    \/ \E t \in Tasks : AddSystem(t)
    \/ \E t \in Tasks : AddServer(t)
    \/ \E t \in Tasks : AddClient(t)
    \/ \E t \in Tasks : Report(t)
    \/ \E t \in Tasks : Done(t)
    \/ \E t \in Tasks : PanicDone(t)
    \/ Crash

SpecStatus == InitNorm /\ [][NextStatus]_vars

TypeOK ==
    /\ Urls \in UrlLists
    /\ gpc \in {"idle", "parse", "launch", "wait", "returned"}
    /\ wg \in 0..MaxUrls
    /\ Len(task) = Len(sink)
    /\ fatal \in BOOLEAN /\ crashed \in BOOLEAN

----------------------------------------------------------------------------
(* Observations used by the properties *)

\* The calls of goroutine t that are records, and those that report an error.
RecordIdx(t) == { i \in 1..Len(sink[t]) : sink[t][i].op = "AddFields" }
ReportIdx(t) == { i \in 1..Len(sink[t]) : sink[t][i].op = "AddError" }
ErrorIdx(t)  == { i \in ReportIdx(t) : sink[t][i].err # Nil }

Records(t) == Cardinality(RecordIdx(t))
Errors(t)  == Cardinality(ErrorIdx(t))

\* Over the whole sink: records tagged with the string s, errors naming s.
RecordsTagged(s) ==
    Cardinality({ <<t, i>> \in Tasks \X (1..4) : i \in RecordIdx(t) /\ sink[t][i].tags.url = s })

ErrorsNaming(s) ==
    Cardinality({ <<t, i>> \in Tasks \X (1..4) : i \in ErrorIdx(t) /\ sink[t][i].err.url = s })

\* The goroutine has ended: it returned and called wg.Done, or it unwound
\* with a panic.
Finished(t) == task[t].pc \in {"done", "dead"}

\* What the server sent to goroutine t, read off the responses themselves.
LoginDecoded(t) ==
    LET r == task[t].tokenRequest
    IN  r.do = "ok" /\ r.body.readable /\ r.body.json

StatsDecoded(t) ==
    LET r == task[t].statsResponse
    IN  r.do = "ok" /\ r.body.readable /\ r.body.json

BucketsSent(t) ==
    LET r == task[t].statsResponse
    IN  IF r.body.has THEN Len(r.body.counts) ELSE 0

Healthy(t) == LoginDecoded(t) /\ StatsDecoded(t) /\ BucketsSent(t) >= NumBuckets

\* The endpoint of goroutine t as a string
Endpoint(t) == String(task[t].serviceURL)

\* The entries of a configured list that hold no control character
RECURSIVE Parsable(_)
Parsable(list) ==
    IF list = <<>> THEN <<>>
    ELSE LET s == Head(list)
         IN  IF \E i \in 1..Len(s) : s[i] \in CtlTokens
             THEN Parsable(Tail(list))
             ELSE <<s>> \o Parsable(Tail(list))

RECURSIVE Unparsable(_)
Unparsable(list) ==
    IF list = <<>> THEN <<>>
    ELSE LET s == Head(list)
         IN  IF \E i \in 1..Len(s) : s[i] \in CtlTokens
             THEN <<s>> \o Unparsable(Tail(list))
             ELSE Unparsable(Tail(list))

----------------------------------------------------------------------------
(* Properties *)

\* C1: endpoint isolation.  When the cycle is over (Gather has returned or
\* the process has ended), every endpoint whose login and stats exchanges
\* both succeeded has its three records in the sink, whatever happened at
\* the other endpoints: no failure elsewhere ends the process under it.
C1_EndpointIsolation ==
    (gpc = "returned" \/ crashed) =>
        \A t \in Tasks : Healthy(t) => Records(t) = 3

\* C2: with two endpoints A and B, A succeeding and B's login POST failing
\* in transport, once Gather has returned the sink holds exactly 3 records
\* tagged url=A, no record tagged url=B, and exactly one error, which names B.
C2_OneFailsOneSucceeds ==
    (gpc = "returned" /\ Len(task) = 2) =>
        \A a \in Tasks : \A b \in Tasks :
            ( /\ Endpoint(a) # Endpoint(b)
              /\ Healthy(a)
              /\ task[b].tokenRequest.do = "transport" )
            => /\ RecordsTagged(Endpoint(a)) = 3
               /\ RecordsTagged(Endpoint(b)) = 0
               /\ ErrorsNaming(Endpoint(b)) = 1
               /\ Errors(a) + Errors(b) = 1
               /\ Records(b) = 0

C2_Witness ==
    /\ gpc = "returned"
    /\ Len(task) = 2
    /\ Endpoint(1) # Endpoint(2)
    /\ Healthy(1)
    /\ task[2].tokenRequest.do = "transport"
    /\ Records(1) = 3

\* C3: Gather returns only after every goroutine it launched has ended, it
\* returns nil however many endpoints failed, and once it has returned no
\* goroutine moves and the sink receives nothing more (until the next call).
C3_ReturnedInv ==
    gpc = "returned" =>
        /\ ret = Nil
        /\ wg = 0
        /\ \A t \in Tasks : Finished(t)

C3_QuietAfterReturn ==
    (gpc = "returned" /\ gpc' = "returned") => (sink' = sink /\ task' = task)

C3_GatherWaitsForAll == []C3_ReturnedInv /\ [][C3_QuietAfterReturn]_vars

C3_Witness ==
    /\ gpc = "returned"
    /\ Len(task) = 2
    /\ \A t \in Tasks : task[t].pc = "done" /\ Errors(t) = 1
    /\ ret = Nil

\* C4: when the stats GET of a goroutine fails in transport (after its login
\* succeeded), the goroutine ends having reported one connectivity error
\* for its endpoint and no record.
C4_StatsTransportReported ==
    \A t \in Tasks :
        (Finished(t) /\ task[t].statsResponse.do = "transport") =>
            /\ Records(t) = 0
            /\ Len(sink[t]) = 1
            /\ sink[t][1] = AddError(StatsConnErr(task[t].serviceURL))

\* C5: when the stats payload holds fewer than 6 buckets (or no counts
\* field), the goroutine ends either having reported one error and no
\* record, or having submitted a client record whose six req_* fields are 0.
C5_ShortBucketsHandled ==
    \A t \in Tasks :
        (Finished(t) /\ StatsDecoded(t) /\ BucketsSent(t) < NumBuckets) =>
            \/ (Errors(t) = 1 /\ Records(t) = 0)
            \/ \E i \in RecordIdx(t) :
                 /\ sink[t][i].name = "arangodb_client"
                 /\ \A k \in {"req_0.01", "req_0.05", "req_0.1", "req_0.2",
                              "req_0.5", "req_1"} : sink[t][i].fields[k] = 0

\* C6: a goroutine whose login response and stats response both decoded ends
\* having submitted exactly three records, arangodb_system, arangodb_server
\* and arangodb_client, each tagged exactly url -> its endpoint.
C6_ThreeRecordsPerFetch ==
    \A t \in Tasks :
        (Finished(t) /\ LoginDecoded(t) /\ StatsDecoded(t)) =>
            /\ Records(t) = 3
            /\ { sink[t][i].name : i \in RecordIdx(t) } =
                   {"arangodb_system", "arangodb_server", "arangodb_client"}
            /\ \A i \in RecordIdx(t) : sink[t][i].tags = [url |-> Endpoint(t)]

\* C7: the goroutines launched in a cycle are one per list entry that parses
\* as a URL, duplicates included, and none for an entry that does not; when
\* Gather returns, as many have been joined as were launched.
C7_OneTaskPerParsedUrl ==
    LET n == Len(Parsable(Urls))
    IN  /\ Len(task) <= n
        /\ wg = Cardinality({ t \in Tasks : ~Finished(t) })
        /\ gpc \in {"wait", "returned"} => Len(task) = n
        /\ gpc = "returned" => Cardinality({ t \in Tasks : Finished(t) }) = n

C7_Witness ==
    /\ gpc = "returned"
    /\ Len(Urls) = 2
    /\ Len(task) = 1
    /\ Finished(1)

\* C8: an unparsable entry, wherever it sits in the list, gets a logged skip
\* and nothing else (no goroutine, no request, no record, no error), while
\* every other entry is dispatched, in order, and, if its server answers
\* both exchanges well, has its three records in the sink when Gather
\* returns.
C8_UnparsableSkipped ==
    LET good == Parsable(Urls)
        bad  == Unparsable(Urls)
    IN  /\ gpc \in {"launch", "wait", "returned"} => logged = bad
        /\ gpc \in {"wait", "returned"} =>
               /\ Len(task) = Len(good)
               /\ \A t \in Tasks : Endpoint(t) = String(Parse(good[t]))
        /\ \A t \in Tasks : \A i \in 1..Len(bad) :
               /\ \A k \in 1..Len(task[t].reqs) :
                      SubSeq(task[t].reqs[k].url, 1, 3) # bad[i]
               /\ \A k \in 1..Len(sink[t]) :
                      /\ sink[t][k].op = "AddFields" => sink[t][k].tags.url # bad[i]
                      /\ sink[t][k].err.url # bad[i]
        /\ (gpc = "returned" /\ \A t \in Tasks : Healthy(t)) =>
               \A t \in Tasks : Records(t) = 3 /\ Errors(t) = 0

C8_Witness ==
    /\ gpc = "returned"
    /\ Len(Urls) = 2
    /\ ParseErr(Urls[1])
    /\ Len(task) = 1
    /\ Healthy(1)
    /\ Records(1) = 3
    /\ Len(logged) = 1

\* C9: a response body that does not decode (login or stats) costs the
\* endpoint its records for the cycle and is reported once: the goroutine
\* submits no record and, when it has returned, exactly one AddError, the
\* decode error; after a login decode error no stats request is issued.
LoginUndecodable(t) ==
    LET r == task[t].tokenRequest
    IN  r.do = "ok" /\ r.body.readable /\ ~r.body.json

StatsUndecodable(t) ==
    LET r == task[t].statsResponse
    IN  r.do = "ok" /\ r.body.readable /\ ~r.body.json

C9_DecodeErrorReportedOnce ==
    \A t \in Tasks :
        (LoginUndecodable(t) \/ StatsUndecodable(t)) =>
            /\ Records(t) = 0
            /\ Cardinality(ReportIdx(t)) <= 1
            /\ task[t].pc = "done" => sink[t] = <<AddError(DecodeErr)>>
            /\ LoginUndecodable(t) => Len(task[t].reqs) = 1
            /\ task[t].pc \notin {"panicking", "dead"}

C9_Witness ==
    /\ Len(task) = 2
    /\ task[1].pc = "done" /\ LoginUndecodable(1)
    /\ task[2].pc = "done" /\ StatsUndecodable(2)

\* C10: no retry.  A goroutine issues the login POST at most once and the
\* stats GET at most once, the GET only after its login response decoded,
\* and once it has met a failure it issues no further request.
Failed(t) ==
    \/ task[t].err # Nil
    \/ task[t].pc \in {"panicking", "dead"}
    \/ (task[t].tokenRequest.do # "none" /\ ~LoginDecoded(t))
    \/ (task[t].statsResponse.do # "none" /\ ~StatsDecoded(t))

C10_Requests ==
    \A t \in Tasks :
        LET q == task[t].reqs
        IN  /\ Len(q) <= 2
            /\ Len(q) >= 1 => q[1].method = "POST"
            /\ Len(q) = 2 => q[2].method = "GET" /\ LoginDecoded(t)

C10_NoRequestAfterFailure ==
    \A t \in Tasks :
        (Failed(t) /\ t \in 1..Len(task')) => task'[t].reqs = task[t].reqs

C10_NoRetry == []C10_Requests /\ [][C10_NoRequestAfterFailure]_vars

C10_Witness ==
    /\ Len(task) = 2
    /\ task[1].pc = "done" /\ task[1].tokenRequest.do = "transport"
    /\ Len(task[1].reqs) = 1
    /\ task[2].pc = "done" /\ Len(task[2].reqs) = 2 /\ StatsUndecodable(2)

\* C11: for a payload of at least 6 buckets, the fields of the arangodb_client
\* record are exactly req_0.01, req_0.05, req_0.1, req_0.2, req_0.5, req_1,
\* count and sum; the req_* values are buckets 0..5 of the payload in that
\* order, count is its request count and sum its total; buckets past index 5
\* appear nowhere.
C11_ClientFieldMapping ==
    \A t \in Tasks : \A i \in RecordIdx(t) :
        sink[t][i].name = "arangodb_client" =>
            LET b == task[t].statsResponse.body
                f == sink[t][i].fields
            IN  /\ Len(b.counts) >= NumBuckets
                /\ DOMAIN f = {"req_0.01", "req_0.05", "req_0.1", "req_0.2",
                               "req_0.5", "req_1", "count", "sum"}
                /\ f["req_0.01"] = b.counts[1]
                /\ f["req_0.05"] = b.counts[2]
                /\ f["req_0.1"]  = b.counts[3]
                /\ f["req_0.2"]  = b.counts[4]
                /\ f["req_0.5"]  = b.counts[5]
                /\ f["req_1"]    = b.counts[6]
                /\ f["count"]    = b.count
                /\ f["sum"]      = b.sum

C11_Witness ==
    /\ Len(task) = 1
    /\ Records(1) = 3
    /\ sink[1][3].name = "arangodb_client"
    /\ task[1].statsResponse.body.counts = <<0, 1, 0, 1, 1, 0, 1>>
    /\ task[1].statsResponse.body.count = 10

\* C12: while a goroutine of the cycle is running, the configuration the
\* goroutines read (endpoint list, credentials, p.client) is written by
\* nobody; and a step of a goroutine writes nothing of the plugin or of
\* Gather: it changes its own locals, the sink, and the WaitGroup counter on
\* which Gather joins.
Running == \E t \in Tasks : ~Finished(t)

C12_ConfigStable ==
    Running => UNCHANGED <<Urls, Username, Password, client>>

C12_TaskStepWritesSinkOnly ==
    (Len(task') = Len(task) /\ task' # task) =>
        UNCHANGED <<Urls, Username, Password, client, allURLs, logged, ret, gpc, idx>>

C12_OnlySinkShared == [][C12_ConfigStable /\ C12_TaskStepWritesSinkOnly]_vars

C12_Witness ==
    /\ Len(task) = 2
    /\ task[1].pc = "add_client"
    /\ task[2].pc = "wgdone"
    /\ client = createHttpClient.client

\* C13: every goroutine runs to completion: one that has ended has either
\* submitted its three records (and reported nil) or reported one failure
\* and no record; and the process does not end under a cycle: it ends, if
\* at all, only when every goroutine has ended and Gather has returned.
C13_EveryTaskCompletes ==
    /\ \A t \in Tasks :
           Finished(t) =>
               \/ (Records(t) = 3 /\ Errors(t) = 0 /\ Len(sink[t]) = 4)
               \/ (Records(t) = 0 /\ Errors(t) = 1)
    /\ crashed => (gpc = "returned" /\ \A t \in Tasks : Finished(t))

\* C14: the stats GET of a goroutine carries Authorization = "Bearer " +
\* the token of the login response that this goroutine received, unchanged,
\* and follows this goroutine's own login POST to its own endpoint; the
\* token of another goroutine's login never appears in it.
TokenSent(t) ==
    LET b == task[t].tokenRequest.body
    IN  IF b.has THEN b.jwt ELSE ""

C14_TokenFromOwnLogin ==
    \A t \in Tasks :
        Len(task[t].reqs) = 2 =>
            /\ task[t].reqs[1].method = "POST"
            /\ task[t].reqs[1].url = Endpoint(t) \o <<loginPostfix>>
            /\ task[t].tokenRequest.do = "ok"
            /\ task[t].reqs[2].method = "GET"
            /\ task[t].reqs[2].url = Endpoint(t) \o <<statsPostfix>>
            /\ task[t].reqs[2].auth = <<"Bearer ", TokenSent(t)>>

C14_Witness ==
    /\ Len(task) = 2
    /\ Len(task[1].reqs) = 2
    /\ Len(task[2].reqs) = 2
    /\ task[1].reqs[2].auth = <<"Bearer ", "a.b+c/d==">>
    /\ task[2].reqs[2].auth = <<"Bearer ", "">>

\* C15: whatever the status code of the login response, the goroutine goes
\* on to the stats GET exactly if the login body was read and decoded; a
\* decodable body without a jwt gives the empty token, the stats GET is
\* issued with it, and nothing is reported at the login step.
C15_StatusIgnored ==
    \A t \in Tasks :
        LET r == task[t].tokenRequest
            decodable == r.body.readable /\ r.body.json
            proceeded == task[t].pc = "stats" \/ Len(task[t].reqs) = 2
        IN  r.do = "ok" =>
                /\ proceeded <=> decodable
                /\ (decodable /\ ~r.body.has) =>
                       /\ task[t].jwt = ""
                       /\ Len(task[t].reqs) = 2 =>
                              task[t].reqs[2].auth = <<"Bearer ", "">>
                       /\ task[t].pc \in {"stats", "stats_wait"} =>
                              (task[t].err = Nil /\ sink[t] = <<>>)
                /\ (decodable /\ r.body.has) => task[t].jwt = r.body.jwt

C15_Witness ==
    /\ Len(task) = 1
    /\ task[1].tokenRequest.do = "ok"
    /\ task[1].tokenRequest.status = 500
    /\ task[1].tokenRequest.body.json
    /\ ~task[1].tokenRequest.body.has
    /\ task[1].pc = "stats_wait"
    /\ task[1].reqs[2].auth = <<"Bearer ", "">>

\* C16: a goroutine whose gatherURL returns calls AddError exactly once:
\* after all its records (the call is the last it makes on the sink) and
\* before its wg.Done; the value is nil exactly if it submitted its three
\* records, so a successful endpoint still makes one AddError(nil) call.
C16_OneReportPerTask ==
    \A t \in Tasks :
        LET n == Len(sink[t])
        IN  /\ Cardinality(ReportIdx(t)) <= 1
            /\ ReportIdx(t) # {} <=> task[t].pc \in {"wgdone", "done"}
            /\ ReportIdx(t) # {} =>
                   /\ ReportIdx(t) = {n}
                   /\ sink[t][n].err = Nil <=> Records(t) = 3
            /\ (task[t].pc = "wgdone") => wg >= 1

C16_Witness ==
    /\ Len(task) = 2
    /\ task[1].pc = "wgdone"
    /\ Records(1) = 3
    /\ Len(sink[1]) = 4
    /\ sink[1][4] = AddError(Nil)
    /\ task[2].pc = "done"
    /\ sink[2] = <<AddError(LoginConnErr(task[2].serviceURL))>>

\* C17: records are all-or-nothing per goroutine.  The records a goroutine
\* has submitted are a prefix of arangodb_system, arangodb_server,
\* arangodb_client, and it has submitted any only with both responses
\* decoded and the statistics in hand; a goroutine that reported a non-nil
\* error has submitted none; a goroutine that has ended has submitted 0 or 3.
RecordNames(t) == [i \in 1..Records(t) |-> sink[t][i].name]

C17_AllOrNothing ==
    \A t \in Tasks :
        /\ RecordIdx(t) = 1..Records(t)
        /\ RecordNames(t) =
               SubSeq(<<"arangodb_system", "arangodb_server", "arangodb_client">>,
                      1, Records(t))
        /\ Records(t) > 0 =>
               /\ LoginDecoded(t) /\ StatsDecoded(t)
               /\ task[t].stats = DecodeStats(task[t].statsResponse)
        /\ Errors(t) > 0 => Records(t) = 0
        /\ task[t].err # Nil => Records(t) = 0
        /\ Finished(t) => Records(t) \in {0, 3}

C17_Witness ==
    /\ Len(task) = 2
    /\ task[1].pc = "add_client" /\ Records(1) = 2
    /\ task[2].pc = "done" /\ Records(2) = 3

====
